---- MODULE Spec2Model ----
(***************************************************************************)
(* Model of gvalop_parser.py: a Parser that scans a string of grouped      *)
(* values and operators into a Group tree, and Group.evaluate, which       *)
(* deep-copies the tree and consumes the copy into a single Result.        *)
(*                                                                         *)
(* Strings are sequences of one-character strings.  Python objects live in *)
(* `heap`, a sequence of records indexed by object id, so that identity    *)
(* (`is`), aliasing and in-place mutation are modelled as the code has     *)
(* them.  Python indices are kept 0-based; Get0/Set0/Del0 translate.           *)
(***************************************************************************)
EXTENDS Integers, Sequences, FiniteSets, TLC

RECURSIVE Strings(_, _)
RECURSIVE LStrip(_)
RECURSIVE RStrip(_)
RECURSIVE FirstGroupingAt(_, _, _, _)
RECURSIVE FirstOperatorAt(_, _, _, _)
RECURSIVE ParseLoop(_, _, _)
RECURSIVE DeepcopyGroup(_, _)
RECURSIVE DeepcopyList(_, _, _, _, _)
RECURSIVE consumed_length(_, _)
RECURSIVE SumSiblings(_, _, _, _)
RECURSIVE Consume(_, _, _, _)
RECURSIVE GroupLoop(_, _, _, _)

(***************************************************************************)
(* Bounds and inputs                                                       *)
(***************************************************************************)
MaxLen == 4

None == "None"
NoIndex == -1

Min(a, b) == IF a < b THEN a ELSE b

\* the docstring's filter string and the two songs whose outcome it states
artists_filter ==
  <<"m", "a", "r", "l", "e", "y", " ", "&", "&", " ", "(", "s", "t", "e", "p",
    "h", "e", "n", " ", "&", "&", " ", "!", "(", "z", "i", "g", "g", "y", " ",
    "|", "|", " ", "d", "a", "m", "i", "a", "n", ")", " ", "|", "|", " ", "b",
    "o", "b", ")">>

SongBob ==
  <<"B", "o", "b", " ", "M", "a", "r", "l", "e", "y", " ", "-", " ", "J", "a",
    "m", "m", "i", "n">>

SongDuane ==
  <<"D", "u", "a", "n", "e", " ", "S", "t", "e", "p", "h", "e", "n", "s", "o",
    "n", " ", "-", " ", "E", "x", "h", "a", "l", "e">>

UpperChars ==
  <<"A", "B", "C", "D", "E", "F", "G", "H", "I", "J", "K", "L", "M", "N", "O",
    "P", "Q", "R", "S", "T", "U", "V", "W", "X", "Y", "Z">>

LowerChars ==
  <<"a", "b", "c", "d", "e", "f", "g", "h", "i", "j", "k", "l", "m", "n", "o",
    "p", "q", "r", "s", "t", "u", "v", "w", "x", "y", "z">>

\* str.lower()
Lower(s) ==
  [i \in 1..Len(s) |->
     IF \E k \in 1..26 : UpperChars[k] = s[i]
       THEN LowerChars[CHOOSE k \in 1..26 : UpperChars[k] = s[i]]
       ELSE s[i]]

\* sub in s
Contains(s, sub) ==
  \E i \in 0..(Len(s) - Len(sub)) : SubSeq(s, i + 1, i + Len(sub)) = sub

\* Parser configurations: 1 is the docstring's, 2 has an operator whose
\* representation is a prefix of a later one and a second grouping whose
\* start and end strings coincide
Configs == {1, 2}

Operators(c) ==
  IF c = 1
    THEN << [kind |-> "Operator", arity |-> 2, representation |-> <<"&", "&">>, func |-> "and_"],
            [kind |-> "Operator", arity |-> 2, representation |-> <<"|", "|">>, func |-> "or_"],
            [kind |-> "Operator", arity |-> 1, representation |-> <<"!">>, func |-> "not_"] >>
    ELSE << [kind |-> "Operator", arity |-> 2, representation |-> <<"&">>, func |-> "and_"],
            [kind |-> "Operator", arity |-> 2, representation |-> <<"&", "&">>, func |-> "or_"] >>

Groupings(c) ==
  IF c = 1
    THEN << [start |-> <<"(">>, end |-> <<")">>] >>
    ELSE << [start |-> <<"(">>, end |-> <<")">>],
            [start |-> <<"[">>, end |-> <<"[">>] >>

Alphabet(c) ==
  IF c = 1 THEN {"b", " ", "(", ")", "&", "!"}
           ELSE {"b", "(", ")", "[", "&"}

Strings(A, n) ==
  IF n = 0 THEN {<<>>}
  ELSE LET shorter == Strings(A, n - 1)
       IN  shorter \cup {Append(s, ch) : s \in {t \in shorter : Len(t) = n - 1}, ch \in A}

\* the docstring filter, a single value, and an input whose values are
\* surrounded by whitespace other than the space
ExtraInputs == {artists_filter, <<"a">>, <<"\f", "b", "\t", "&", "&", "\n", "b", "\r">>}

Inputs(c) == Strings(Alphabet(c), MaxLen) \cup (IF c = 1 THEN ExtraInputs ELSE {})

\* evaluation functions handed to Group.evaluate; None selects each Value's
\* stored default
EvalFuncs == {None, "inBob", "inDuane"}

(***************************************************************************)
(* Values computed by evaluation and operator functions                    *)
(***************************************************************************)
Str(s)  == [t |-> "str",  b |-> FALSE, s |-> s]
Bool(b) == [t |-> "bool", b |-> b,     s |-> <<>>]
TypeError == [t |-> "TypeError", b |-> FALSE, s |-> <<>>]

\* the evaluation function `name` applied to a Value's text
ApplyEval(name, text) ==
  CASE name = "identity" -> Str(text)
    [] name = "inBob"    -> Bool(Contains(Lower(SongBob), text))
    [] name = "inDuane"  -> Bool(Contains(Lower(SongDuane), text))

\* operator.and_ / operator.or_ / operator.not_
ApplyBinary(name, l, r) ==
  IF l.t = "bool" /\ r.t = "bool"
    THEN (IF name = "and_" THEN Bool(l.b /\ r.b) ELSE Bool(l.b \/ r.b))
    ELSE TypeError

ApplyUnary(name, v) ==
  IF v.t = "bool" THEN Bool(~v.b) ELSE Bool(Len(v.s) = 0)

(***************************************************************************)
(* Python list access on 0-based, possibly negative, indices               *)
(***************************************************************************)
InRange0(items, i) == i >= -Len(items) /\ i < Len(items)
Pos0(items, i) == IF i < 0 THEN Len(items) + i + 1 ELSE i + 1
Get0(items, i) == items[Pos0(items, i)]
Set0(items, i, x) == [items EXCEPT ![Pos0(items, i)] = x]
Del0(items, i) ==
  LET p == Pos0(items, i)
  IN  SubSeq(items, 1, p - 1) \o SubSeq(items, p + 1, Len(items))

(***************************************************************************)
(* Objects                                                                 *)
(***************************************************************************)
\* grouping=None; a Group's parent=None is id 0
NoGrouping == [start |-> <<>>, end |-> <<>>]

NewGroup(parent, grouping) ==
  [kind |-> "Group", parent |-> parent, grouping |-> grouping, children |-> <<>>]
NewValue(func, value) == [kind |-> "Value", func |-> func, value |-> value]
NewResult(value, cl) == [kind |-> "Result", value |-> value, consumed_length |-> cl]

\* Parser.__init__ holds the operator objects; parse creates the root Group
NumOps(c) == Len(Operators(c))
RootId(c) == NumOps(c) + 1
InitHeap(c) == Append(Operators(c), NewGroup(0, NoGrouping))

Alloc(h, node) == Append(h, node)
AppendChild(h, g, id) == [h EXCEPT ![g].children = Append(@, id)]

\* the characters str.strip() removes (those with str.isspace()) that a string
\* of this module can hold: U+0009-000D, U+001C-001F, U+0020, U+0085, U+00A0
\* and U+1680.  The remaining ones (U+2000-200A, U+2028, U+2029, U+202F,
\* U+205F, U+3000) cannot be written in a string here, so no input has them.
Whitespace ==
  {"\t", "\n", "", "\f", "\r", "", "",
   "", "", " ", "", " ", " "}
LStrip(s) == IF s # <<>> /\ Head(s) \in Whitespace THEN LStrip(Tail(s)) ELSE s
RStrip(s) ==
  IF s # <<>> /\ s[Len(s)] \in Whitespace THEN RStrip(SubSeq(s, 1, Len(s) - 1)) ELSE s
Strip(s) == RStrip(LStrip(s))

(***************************************************************************)
(* Parser                                                                  *)
(***************************************************************************)
evaluation_func == "identity"

GetNewValue == [func |-> evaluation_func, value |-> <<>>]

IsSubstringAtIndex(string, index, sub) ==
  SubSeq(string, index + 1, Min(index + Len(sub), Len(string))) = sub

\* _pushValue: strips the pending value in place; a non-empty one becomes a
\* child of `group` and a new pending value is created
PushValue(h, group, value) ==
  LET stripped == Strip(value.value)
  IN  IF stripped # <<>>
        THEN [heap  |-> AppendChild(Alloc(h, NewValue(value.func, stripped)), group, Len(h) + 1),
              value |-> GetNewValue]
        ELSE [heap |-> h, value |-> [value EXCEPT !.value = stripped]]

\* index of the first grouping, from k on, whose start matches (0: none)
FirstGroupingAt(c, string, index, k) ==
  IF k > Len(Groupings(c)) THEN 0
  ELSE IF IsSubstringAtIndex(string, index, Groupings(c)[k].start) THEN k
  ELSE FirstGroupingAt(c, string, index, k + 1)

\* variant of the operator loop in which the last listed match wins
LastOperatorAt(c, string, index, k) ==
  LET m == {j \in 1..NumOps(c) : IsSubstringAtIndex(string, index, Operators(c)[j].representation)}
  IN  IF m = {} THEN 0 ELSE CHOOSE j \in m : \A i \in m : i <= j

\* id of the first operator, from k on, whose representation matches (0: none)
FirstOperatorAt(c, string, index, k) ==
  IF k > NumOps(c) THEN 0
  ELSE IF IsSubstringAtIndex(string, index, Operators(c)[k].representation) THEN k
  ELSE FirstOperatorAt(c, string, index, k + 1)

TryConsumeGroupStart(c, h, d) ==
  LET k == FirstGroupingAt(c, d.string, d.index, 1)
      pushed == PushValue(h, d.current_group, d.current_value)
      new_group == Len(pushed.heap) + 1
  IN  IF k = 0 THEN [ok |-> FALSE, heap |-> h, data |-> d]
      ELSE [ok   |-> TRUE,
            heap |-> AppendChild(Alloc(pushed.heap, NewGroup(d.current_group, Groupings(c)[k])),
                                 d.current_group, new_group),
            data |-> [d EXCEPT !.current_value = pushed.value,
                               !.current_group = new_group,
                               !.index = @ + Len(Groupings(c)[k].start)]]

TryConsumeGroupEnd(c, h, d) ==
  LET g == h[d.current_group]
      pushed == PushValue(h, d.current_group, d.current_value)
  IN  IF g.grouping = NoGrouping THEN [ok |-> FALSE, heap |-> h, data |-> d]
      ELSE IF IsSubstringAtIndex(d.string, d.index, g.grouping.end)
        THEN [ok   |-> TRUE,
              heap |-> pushed.heap,
              data |-> [d EXCEPT !.current_value = pushed.value,
                                 !.current_group = g.parent,
                                 !.index = @ + Len(g.grouping.end)]]
        ELSE [ok |-> FALSE, heap |-> h, data |-> d]

TryConsumeOperator(c, h, d) ==
  LET op == FirstOperatorAt(c, d.string, d.index, 1)
      pushed == PushValue(h, d.current_group, d.current_value)
  IN  IF op = 0 THEN [ok |-> FALSE, heap |-> h, data |-> d]
      ELSE [ok   |-> TRUE,
            heap |-> AppendChild(pushed.heap, d.current_group, op),
            data |-> [d EXCEPT !.current_value = pushed.value,
                               !.index = @ + Len(h[op].representation)]]

ConsumeValue(d) ==
  [d EXCEPT !.current_value.value = Append(@, d.string[d.index + 1]),
            !.index = @ + 1]

InitData(c, string) ==
  [string |-> string, index |-> 0, current_group |-> RootId(c),
   current_value |-> GetNewValue]

\* variant of the final _pushValue that flushes into the root
EndPushRoot(c, h, d) == PushValue(h, RootId(c), d.current_value).heap

\* the final _pushValue of parse, flushing into the current group
EndPush(c, h, d) == PushValue(h, d.current_group, d.current_value).heap

\* Parser.parse as a function: the heap when parse returns the root
ParseLoop(c, h, d) ==
  IF d.index < Len(d.string)
    THEN LET gs == TryConsumeGroupStart(c, h, d)
             ge == TryConsumeGroupEnd(c, h, d)
             op == TryConsumeOperator(c, h, d)
         IN  IF gs.ok THEN ParseLoop(c, gs.heap, gs.data)
             ELSE IF ge.ok THEN ParseLoop(c, ge.heap, ge.data)
             ELSE IF op.ok THEN ParseLoop(c, op.heap, op.data)
             ELSE ParseLoop(c, h, ConsumeValue(d))
    ELSE EndPush(c, h, d)

parse(c, string) ==
  ParseLoop(c, InitHeap(c), InitData(c, string))

(***************************************************************************)
(* deepcopy                                                                *)
(***************************************************************************)
\* variant of Value.__deepcopy__ that hands back the Value itself
DeepcopyValueShared(h, v) == [heap |-> h, id |-> v]

\* Value.__deepcopy__
DeepcopyValue(h, v) ==
  [heap |-> Alloc(h, NewValue(h[v].func, h[v].value)), id |-> Len(h) + 1]

\* Operator.__deepcopy__
DeepcopyOperator(h, o) == [heap |-> Alloc(h, h[o]), id |-> Len(h) + 1]

\* Result.__deepcopy__
DeepcopyResult(h, r) == [heap |-> Alloc(h, h[r]), id |-> Len(h) + 1]

\* deepcopy of a children list under one memo dictionary (a set of
\* <<original, copy>> pairs): items k.. of `items` are appended to `acc`
DeepcopyList(h, items, k, memo, acc) ==
  IF k > Len(items) THEN [heap |-> h, ids |-> acc]
  ELSE LET x == items[k]
       IN  IF \E m \in memo : m[1] = x
             THEN DeepcopyList(h, items, k + 1, memo,
                               Append(acc, (CHOOSE m \in memo : m[1] = x)[2]))
             ELSE LET cp == CASE h[x].kind = "Value"    -> DeepcopyValue(h, x)
                              [] h[x].kind = "Operator" -> DeepcopyOperator(h, x)
                              [] h[x].kind = "Result"   -> DeepcopyResult(h, x)
                              [] h[x].kind = "Group"    -> DeepcopyGroup(h, x)
                  IN  DeepcopyList(cp.heap, items, k + 1, memo \cup {<<x, cp.id>>},
                                   Append(acc, cp.id))

\* Group.__deepcopy__: the copy keeps self.parent as it is and gets a deep
\* copy of the children list, made under a memo of its own
DeepcopyGroup(h, g) ==
  LET _copy == Len(h) + 1
      h1 == Alloc(h, NewGroup(h[g].parent, h[g].grouping))
      cs == DeepcopyList(h1, h[g].children, 1, {}, <<>>)
  IN  [heap |-> [cs.heap EXCEPT ![_copy].children = cs.ids], id |-> _copy]

(***************************************************************************)
(* consumed_length and consume                                             *)
(***************************************************************************)
\* an IndexError escaping the consumed_length property
IndexErr == -1

\* len(obj) for the objects that reach the except branch of the property
ObjLen(h, x) == IF h[x].kind = "Value" THEN Len(h[x].value) ELSE Len(h[x].representation)

\* the loop of the property over parent.children, up to `self`
SumSiblings(h, g, items, acc) ==
  IF items = <<>> THEN acc
  ELSE LET x == Head(items)
       IN  IF x = g THEN acc
           ELSE LET n == CASE h[x].kind = "Result" -> h[x].consumed_length
                           [] h[x].kind = "Group"  -> consumed_length(h, x)
                           [] OTHER                -> ObjLen(h, x)
                IN  IF n = IndexErr THEN IndexErr
                    ELSE SumSiblings(h, g, Tail(items), acc + n)

\* Group.consumed_length
consumed_length(h, g) ==
  LET self == h[g]
  IN  IF self.children = <<>> THEN IndexErr
      ELSE LET c0 == self.children[1]
               first == CASE h[c0].kind = "Result" -> h[c0].consumed_length
                          [] h[c0].kind = "Group"  -> consumed_length(h, c0)
                          [] OTHER                 -> 0
           IN  IF first = IndexErr THEN IndexErr
               ELSE IF self.parent = 0 THEN first
               ELSE IF h[self.parent].children[1] = g
                 THEN first + Len(self.grouping.start)
                 ELSE LET total == SumSiblings(h, g, h[self.parent].children, first)
                      IN  IF total = IndexErr THEN IndexErr ELSE total + 1

Ok(h, index) == [heap |-> h, index |-> index, exc |-> "none", eindex |-> NoIndex]
Raise(h, exc, eindex) == [heap |-> h, index |-> 0, exc |-> exc, eindex |-> eindex]

\* Value.consume
ValueConsume(h, items_of, index, func) ==
  LET self == Get0(h[items_of].children, index)
      h1 == IF func # None THEN [h EXCEPT ![self].func = func] ELSE h
      result == NewResult(ApplyEval(h1[self].func, h1[self].value), Len(h1[self].value))
      h2 == Alloc(h1, result)
  IN  Ok([h2 EXCEPT ![items_of].children = Set0(@, index, Len(h2))], index)

\* OperatorUnary.consume
OperatorUnaryConsume(h, items_of, index, func) ==
  LET items == h[items_of].children
      self == h[Get0(items, index)]
  IN  IF ~InRange0(items, index + 1)
        THEN Raise(h, "InvalidOperandError", NoIndex)
        ELSE LET r == Consume(h, items_of, index + 1, func)
             IN  IF r.exc # "none" THEN r
                 ELSE LET items1 == r.heap[items_of].children
                          right == r.heap[Get0(items1, index + 1)]
                          result == NewResult(ApplyUnary(self.func, right.value),
                                              Len(self.representation) + right.consumed_length)
                          h2 == Alloc(r.heap, result)
                      IN  Ok([h2 EXCEPT ![items_of].children =
                                  Del0(Set0(items1, index, Len(h2)), index + 1)],
                             index)

\* variant of OperatorBinary.consume that passes the right operand's value
\* for both arguments of the operator function
OperatorBinaryConsumeRightOnly(h, items_of, index, func) ==
  LET items == h[items_of].children
      self == h[Get0(items, index)]
  IN  IF ~InRange0(items, index - 1) \/ ~InRange0(items, index + 1)
        THEN Raise(h, "InvalidOperandError", NoIndex)
        ELSE LET left == h[Get0(items, index - 1)]
             IN  IF left.kind # "Result"
                   THEN Raise(h, "InvalidOperandError", NoIndex)
                   ELSE LET r == Consume(h, items_of, index + 1, func)
                        IN  IF r.exc # "none" THEN r
                            ELSE LET items1 == r.heap[items_of].children
                                     right == r.heap[Get0(items1, index + 1)]
                                     value == ApplyBinary(self.func, right.value, right.value)
                                     result == NewResult(value,
                                                 left.consumed_length + Len(self.representation)
                                                   + right.consumed_length)
                                     h2 == Alloc(r.heap, result)
                                 IN  IF value = TypeError
                                       THEN Raise(r.heap, "TypeError", NoIndex)
                                       ELSE Ok([h2 EXCEPT ![items_of].children =
                                                  Del0(Del0(Set0(items1, index, Len(h2)),
                                                            index + 1), index - 1)],
                                               index - 1)

\* OperatorBinary.consume
OperatorBinaryConsume(h, items_of, index, func) ==
  LET items == h[items_of].children
      self == h[Get0(items, index)]
  IN  IF ~InRange0(items, index - 1) \/ ~InRange0(items, index + 1)
        THEN Raise(h, "InvalidOperandError", NoIndex)
        ELSE LET left == h[Get0(items, index - 1)]
             IN  IF left.kind # "Result"
                   THEN Raise(h, "InvalidOperandError", NoIndex)
                   ELSE LET r == Consume(h, items_of, index + 1, func)
                        IN  IF r.exc # "none" THEN r
                            ELSE LET items1 == r.heap[items_of].children
                                     right == r.heap[Get0(items1, index + 1)]
                                     value == ApplyBinary(self.func, left.value, right.value)
                                     result == NewResult(value,
                                                 left.consumed_length + Len(self.representation)
                                                   + right.consumed_length)
                                     h2 == Alloc(r.heap, result)
                                 IN  IF value = TypeError
                                       THEN Raise(r.heap, "TypeError", NoIndex)
                                       ELSE Ok([h2 EXCEPT ![items_of].children =
                                                  Del0(Del0(Set0(items1, index, Len(h2)),
                                                            index + 1), index - 1)],
                                               index - 1)

\* the error position a Group attaches: self.consumed_length+1
RaiseAt(h, self, exc) ==
  LET cl == consumed_length(h, self)
  IN  IF cl = IndexErr THEN Raise(h, "IndexError", NoIndex)
      ELSE Raise(h, exc, cl + 1)

\* the while loop of Group.consume, from child_i on
GroupLoop(h, self, child_i, func) ==
  IF child_i < Len(h[self].children)
    THEN LET r == Consume(h, self, child_i, func)
         IN  IF r.exc = "InvalidOperandError"
               THEN (IF r.eindex = NoIndex
                       THEN RaiseAt(r.heap, self, "InvalidOperandError")
                       ELSE r)
             ELSE IF r.exc # "none" THEN r
             ELSE IF r.index # 0 THEN RaiseAt(r.heap, self, "MissingOperatorError")
             ELSE GroupLoop(r.heap, self, r.index + 1, func)
    ELSE Ok(h, child_i)

\* Group.consume up to `result`: index is the id of the Result object
GroupResult(h, self, func) ==
  LET r == GroupLoop(h, self, 0, func)
  IN  IF r.exc # "none" THEN r
      ELSE IF r.heap[self].children = <<>> THEN Raise(r.heap, "IndexError", NoIndex)
      ELSE LET result == r.heap[self].children[1]
               grouping == r.heap[self].grouping
           IN  IF grouping # NoGrouping
                 THEN Ok([r.heap EXCEPT ![result].consumed_length =
                            @ + Len(grouping.start) + Len(grouping.end)], result)
                 ELSE Ok(r.heap, result)

\* Group.consume called with the items and index of an enclosing list
GroupConsume(h, items_of, index, func) ==
  LET self == Get0(h[items_of].children, index)
      r == GroupResult(h, self, func)
  IN  IF r.exc # "none" THEN r
      ELSE Ok([r.heap EXCEPT ![items_of].children = Set0(@, index, r.index)], index)

\* items[index].consume(items, index, func), items being h[items_of].children
Consume(h, items_of, index, func) ==
  LET x == h[Get0(h[items_of].children, index)]
  IN  CASE x.kind = "Result" -> Ok(h, index)
        [] x.kind = "Value"  -> ValueConsume(h, items_of, index, func)
        [] x.kind = "Group"  -> GroupConsume(h, items_of, index, func)
        [] x.kind = "Operator" /\ x.arity = 1 -> OperatorUnaryConsume(h, items_of, index, func)
        [] x.kind = "Operator" /\ x.arity = 2 -> OperatorBinaryConsume(h, items_of, index, func)

(***************************************************************************)
(* Group.evaluate                                                          *)
(***************************************************************************)
NoValue == [t |-> "none", b |-> FALSE, s |-> <<>>]
NoRet == [kind |-> "none", value |-> NoValue, consumed_length |-> 0, index |-> NoIndex]

\* what the caller of consume(func=func) on the root of a copy gets: the
\* Result, or the exception with its index
Outcome(r) ==
  IF r.exc = "none"
    THEN [kind |-> "Result", value |-> r.heap[r.index].value,
          consumed_length |-> r.heap[r.index].consumed_length, index |-> NoIndex]
    ELSE [kind |-> r.exc, value |-> NoValue, consumed_length |-> 0, index |-> r.eindex]

\* Group.evaluate on the Group g of heap h, as a function
evaluate(h, g, func) ==
  LET copy_self == DeepcopyGroup(h, g)
  IN  Outcome(GroupResult(copy_self.heap, copy_self.id, func))

(***************************************************************************)
(* State machine                                                           *)
(***************************************************************************)
VARIABLES
  cfg,        \* which Parser configuration (operators, groupings) is in use
  data,       \* parse's dictionary: string, index, current_group, current_value
  heap,       \* the objects, by id: operators, Groups, Values, Results
  pc,         \* "parsing", "parsed" (parse returned), "cloned" (inside evaluate)
  func,       \* the func argument of the last evaluate call
  copy_self,  \* evaluate's local: id of the copy of the root (0 outside evaluate)
  ret         \* what the last evaluate call returned or raised

vars == <<cfg, data, heap, pc, func, copy_self, ret>>

Init ==
  /\ cfg \in Configs
  /\ \E string \in Inputs(cfg) : data = InitData(cfg, string)
  /\ heap = InitHeap(cfg)
  /\ pc = "parsing"
  /\ func = None
  /\ copy_self = 0
  /\ ret = NoRet

Scanning == pc = "parsing" /\ data.index < Len(data.string)

ParseGroupStart ==
  /\ Scanning
  /\ LET r == TryConsumeGroupStart(cfg, heap, data)
     IN  r.ok /\ heap' = r.heap /\ data' = r.data
  /\ UNCHANGED <<cfg, pc, func, copy_self, ret>>

ParseGroupEnd ==
  /\ Scanning
  /\ ~TryConsumeGroupStart(cfg, heap, data).ok
  /\ LET r == TryConsumeGroupEnd(cfg, heap, data)
     IN  r.ok /\ heap' = r.heap /\ data' = r.data
  /\ UNCHANGED <<cfg, pc, func, copy_self, ret>>

ParseOperator ==
  /\ Scanning
  /\ ~TryConsumeGroupStart(cfg, heap, data).ok
  /\ ~TryConsumeGroupEnd(cfg, heap, data).ok
  /\ LET r == TryConsumeOperator(cfg, heap, data)
     IN  r.ok /\ heap' = r.heap /\ data' = r.data
  /\ UNCHANGED <<cfg, pc, func, copy_self, ret>>

ParseValue ==
  /\ Scanning
  /\ ~TryConsumeGroupStart(cfg, heap, data).ok
  /\ ~TryConsumeGroupEnd(cfg, heap, data).ok
  /\ ~TryConsumeOperator(cfg, heap, data).ok
  /\ data' = ConsumeValue(data)
  /\ UNCHANGED <<cfg, heap, pc, func, copy_self, ret>>

\* the end of parse: the last _pushValue, and root is returned
ParseReturn ==
  /\ pc = "parsing"
  /\ data.index >= Len(data.string)
  /\ heap' = EndPush(cfg, heap, data)
  /\ data' = [data EXCEPT !.current_value.value = Strip(@)]
  /\ pc' = "parsed"
  /\ UNCHANGED <<cfg, func, copy_self, ret>>

\* root.evaluate(f), first statement: copy_self = deepcopy(self)
EvaluateDeepcopy ==
  /\ pc = "parsed"
  /\ \E f \in EvalFuncs :
       LET c == DeepcopyGroup(heap, RootId(cfg))
       IN  /\ heap' = c.heap
           /\ copy_self' = c.id
           /\ func' = f
  /\ pc' = "cloned"
  /\ ret' = NoRet
  /\ UNCHANGED <<cfg, data>>

\* root.evaluate(f), second statement: return copy_self.consume(func=func);
\* the copy and the Results are local and are dropped at the return
EvaluateConsume ==
  /\ pc = "cloned"
  /\ LET r == GroupResult(heap, copy_self, func)
     IN  /\ ret' = Outcome(r)
         /\ heap' = SubSeq(r.heap, 1, copy_self - 1)
  /\ pc' = "parsed"
  /\ copy_self' = 0
  /\ UNCHANGED <<cfg, data, func>>

Next ==
  \/ ParseGroupStart
  \/ ParseGroupEnd
  \/ ParseOperator
  \/ ParseValue
  \/ ParseReturn
  \/ EvaluateDeepcopy
  \/ EvaluateConsume

Spec == Init /\ [][Next]_vars


(***************************************************************************)
(* Definitions used to state the properties                                *)
(***************************************************************************)
RECURSIVE RefOperand(_, _, _, _)
RECURSIVE RefFold(_, _, _, _, _)
RECURSIVE ScanSpans(_, _, _, _)
RECURSIVE Attached(_, _, _)

Root == RootId(cfg)
Parsed == pc = "parsed"
Returned == pc = "parsed" /\ ret # NoRet

\* the objects of the parsed tree, as opposed to those evaluate allocates
OriginalLen == IF pc = "cloned" THEN copy_self - 1 ELSE Len(heap)

Range(f) == {f[i] : i \in DOMAIN f}
GroupsOf(h) == {g \in 1..Len(h) : h[g].kind = "Group"}

\* g hangs under the root by parent links that are mirrored by child links;
\* n bounds the walk
Attached(h, g, n) ==
  \/ g = Root
  \/ /\ n > 0
     /\ h[g].parent # 0
     /\ g \in Range(h[h[g].parent].children)
     /\ Attached(h, h[g].parent, n - 1)

\* Reference evaluation of a parsed group ---------------------------------
\* the operand that starts at child k of items: unary operators apply to the
\* operand to their right; a Value is f(text); a Group is reduced first
RefOperand(h, items, k, f) ==
  IF k > Len(items) THEN [value |-> NoValue, next |-> k]
  ELSE LET x == h[items[k]]
       IN  CASE x.kind = "Value" ->
                  [value |-> ApplyEval(IF f = None THEN x.func ELSE f, x.value), next |-> k + 1]
             [] x.kind = "Group" ->
                  LET first == RefOperand(h, x.children, 1, f)
                  IN  [value |-> RefFold(h, x.children, first.next, first.value, f),
                       next |-> k + 1]
             [] x.kind = "Operator" /\ x.arity = 1 ->
                  LET right == RefOperand(h, items, k + 1, f)
                  IN  [value |-> ApplyUnary(x.func, right.value), next |-> right.next]
             [] OTHER -> [value |-> NoValue, next |-> k + 1]

\* the binary operators of one group, strictly left to right from child k
RefFold(h, items, k, acc, f) ==
  IF k > Len(items) THEN acc
  ELSE LET x == h[items[k]]
           right == RefOperand(h, items, k + 1, f)
       IN  IF x.kind = "Operator" /\ x.arity = 2
             THEN RefFold(h, items, right.next, ApplyBinary(x.func, acc, right.value), f)
             ELSE NoValue

RefEval(h, g, f) ==
  LET first == RefOperand(h, h[g].children, 1, f)
  IN  RefFold(h, h[g].children, first.next, first.value, f)

\* Source spans of the children of every group ----------------------------
\* the span of the pending value if it is pushed at d.index
ValueSpan(h, d) ==
  LET cv == d.current_value.value
      end == d.index - (Len(cv) - Len(RStrip(cv)))
  IN  IF Strip(cv) = <<>> THEN {}
      ELSE {[id |-> Len(h) + 1, g |-> d.current_group,
             pos |-> Len(h[d.current_group].children) + 1,
             start |-> end - Len(Strip(cv)), end |-> end]}

\* one record per child (group g, position pos): the offsets in the input
\* of its first character and of the character after its last
ScanSpans(c, h, d, spans) ==
  IF d.index < Len(d.string)
    THEN LET gs == TryConsumeGroupStart(c, h, d)
             ge == TryConsumeGroupEnd(c, h, d)
             op == TryConsumeOperator(c, h, d)
             vs == ValueSpan(h, d)
             g  == d.current_group
         IN  IF gs.ok
               THEN ScanSpans(c, gs.heap, gs.data,
                      spans \cup vs \cup
                        {[id |-> gs.data.current_group, g |-> g,
                          pos |-> Len(gs.heap[g].children),
                          start |-> d.index, end |-> Len(d.string)]})
             ELSE IF ge.ok
               THEN ScanSpans(c, ge.heap, ge.data,
                      {IF r.id = g THEN [r EXCEPT !.end = ge.data.index] ELSE r :
                         r \in spans \cup vs})
             ELSE IF op.ok
               THEN ScanSpans(c, op.heap, op.data,
                      spans \cup vs \cup
                        {[id |-> 0, g |-> g, pos |-> Len(op.heap[g].children),
                          start |-> d.index, end |-> op.data.index]})
             ELSE ScanSpans(c, h, ConsumeValue(d), spans)
    ELSE spans \cup ValueSpan(h, d)

Spans == ScanSpans(cfg, InitHeap(cfg), InitData(cfg, data.string), {})

ChildAt(r) == heap[heap[r.g].children[r.pos]]
NumChildren(r) == Len(heap[r.g].children)
IsUnary(x) == x.kind = "Operator" /\ x.arity = 1
IsBinary(x) == x.kind = "Operator" /\ x.arity = 2

\* operators lacking an operand: a unary one with no node to its right, a
\* binary one with no node to its left or to its right
OperandFaults ==
  {r \in Spans :
     \/ IsUnary(ChildAt(r)) /\ r.pos = NumChildren(r)
     \/ IsBinary(ChildAt(r)) /\ (r.pos = 1 \/ r.pos = NumChildren(r))}

\* operands directly followed by another operand-bearing node
Adjacencies ==
  {r \in Spans :
     /\ ChildAt(r).kind \in {"Value", "Group"}
     /\ r.pos < NumChildren(r)
     /\ LET next == heap[heap[r.g].children[r.pos + 1]]
        IN  next.kind \in {"Value", "Group"} \/ IsUnary(next)}

\* a binary operator whose left neighbour is an operator
StackedOperators ==
  {r \in Spans :
     /\ IsBinary(ChildAt(r))
     /\ r.pos > 1
     /\ heap[heap[r.g].children[r.pos - 1]].kind = "Operator"}

EmptyGroups == {g \in GroupsOf(heap) : heap[g].children = <<>>}

(***************************************************************************)
(* Properties                                                              *)
(***************************************************************************)

\* C1: every Group.evaluate call on the parsed tree, whatever the evaluation
\* function, leaves every object of the tree as it was (children, texts,
\* stored functions, groupings, parents), and returns what a fresh parse of
\* the same input followed by that single call returns.
C1_EvaluateLeavesTreeIntact ==
  /\ [][pc # "parsing" =>
          /\ SubSeq(heap', 1, OriginalLen) = SubSeq(heap, 1, OriginalLen)
          /\ (pc' = "parsed" => Len(heap') = OriginalLen)]_vars
  /\ [](Returned => ret = evaluate(parse(cfg, data.string), Root, func))

\* evaluate("inDuane") returned a Result on a tree with a non-empty nested
\* group for which evaluate("inBob") gives another Result; the state is the
\* same whether or not other evaluate calls came before
C1_Witness ==
  /\ Returned
  /\ func = "inDuane"
  /\ ret.kind = "Result"
  /\ ret # evaluate(heap, Root, "inBob")
  /\ \E g \in GroupsOf(heap) : g # Root /\ heap[g].children # <<>>

\* C2: when evaluate(f) returns a Result, its value is that of the reference
\* evaluation (values are f(text), groups reduce first, a unary operator
\* takes the operand to its right, binary operators go left to right); the
\* docstring's filter gives True for the Bob Marley song and False for the
\* Duane Stephenson one, and "a" under the default function gives "a".
C2_ValueIsReferenceEvaluation ==
  /\ (Returned /\ ret.kind = "Result" => ret.value = RefEval(heap, Root, func))
  /\ (Returned /\ data.string = artists_filter /\ func = "inBob"
        => ret.kind = "Result" /\ ret.value = Bool(TRUE))
  /\ (Returned /\ data.string = artists_filter /\ func = "inDuane"
        => ret.kind = "Result" /\ ret.value = Bool(FALSE))
  /\ (Returned /\ data.string = <<"a">> /\ func = None
        => ret.kind = "Result" /\ ret.value = Str(<<"a">>))

C2_Witness ==
  /\ Returned
  /\ data.string = artists_filter
  /\ func = "inDuane"
  /\ ret.kind = "Result"
  /\ ret.value = Bool(FALSE)

\* C3: a successful evaluation's consumed_length is the length of the whole
\* input string.
C3_ConsumedLengthIsInputLength ==
  Returned /\ ret.kind = "Result" => ret.consumed_length = Len(data.string)

\* C4: a tree whose only faults are operators lacking an operand, in the
\* root group, raises InvalidOperandError with the offset of such an
\* operator as its index.
C4_InvalidOperandAtOperatorOffset ==
  ( /\ Returned
    /\ OperandFaults # {}
    /\ \A r \in OperandFaults : r.g = Root
    /\ Adjacencies = {} /\ StackedOperators = {} /\ EmptyGroups = {} )
  => /\ ret.kind = "InvalidOperandError"
     /\ ret.index \in {r.start : r \in OperandFaults}

\* C5: a tree with two adjacent operands never evaluates to a Result, and
\* one whose only faults are such adjacencies, in the root group, raises
\* MissingOperatorError with the offset just after a first operand as index.
C5_MissingOperatorAfterFirstOperand ==
  /\ (Returned /\ Adjacencies # {} => ret.kind # "Result")
  /\ ( ( /\ Returned
         /\ Adjacencies # {}
         /\ \A r \in Adjacencies : r.g = Root
         /\ OperandFaults = {} /\ StackedOperators = {} /\ EmptyGroups = {} )
       => /\ ret.kind = "MissingOperatorError"
          /\ ret.index \in {r.end : r \in Adjacencies} )

\* C6: when all the faults of a tree are inside nested groups, the index of
\* the error that reaches the caller is the absolute offset of a fault: of
\* an operator lacking an operand, or just after the first of two adjacent
\* operands.
C6_NestedErrorIndexIsAbsolute ==
  ( /\ Returned
    /\ OperandFaults \cup Adjacencies # {}
    /\ \A r \in OperandFaults \cup Adjacencies : r.g # Root
    /\ StackedOperators = {} /\ EmptyGroups = {} )
  => /\ ret.kind \in {"InvalidOperandError", "MissingOperatorError"}
     /\ ret.index \in {r.start : r \in OperandFaults} \cup {r.end : r \in Adjacencies}

\* C7: parse never fails: the current group is always a Group hanging under
\* the root; at the end of the input the pending value, trimmed, is appended
\* to the current group even when that group is unclosed, nothing else
\* changes, and the root has no parent and no grouping.
C7_ParseNeverFails ==
  /\ [](/\ data.current_group \in 1..OriginalLen
        /\ heap[data.current_group].kind = "Group"
        /\ Attached(heap, data.current_group, Len(heap))
        /\ heap[Root].kind = "Group"
        /\ heap[Root].parent = 0
        /\ heap[Root].grouping = NoGrouping)
  /\ [][pc = "parsing" /\ pc' = "parsed" =>
          LET text == Strip(data.current_value.value)
              new == Len(heap) + 1
          IN  IF text = <<>> THEN heap' = heap
              ELSE heap' = [Append(heap, NewValue(evaluation_func, text))
                              EXCEPT ![data.current_group].children = Append(@, new)]]_vars

\* parse returned with an unclosed group holding the flushed last value
C7_Witness ==
  /\ Parsed
  /\ data.current_group # Root
  /\ heap[data.current_group].children # <<>>
  /\ LET cs == heap[data.current_group].children
     IN  /\ heap[cs[Len(cs)]].kind = "Value"
         /\ heap[cs[Len(cs)]].value = Strip(data.current_value.value)

MatchesAt(string, index, sub) ==
  /\ index + Len(sub) <= Len(string)
  /\ \A k \in 1..Len(sub) : string[index + k] = sub[k]

\* C8: each scan step takes the first that applies of: a grouping's start at
\* the index (new child group, descend), the current non-root group's own
\* end (ascend), the first listed operator that matches (append it), and
\* otherwise moves one character into the pending value; the first three
\* first append the trimmed pending value, if not empty, to the current group.
C8_ScanStepOrder ==
  [][Scanning =>
       LET string == data.string
           index == data.index
           g == data.current_group
           text == Strip(data.current_value.value)
           flushed == IF text = <<>> THEN heap
                      ELSE [Append(heap, NewValue(evaluation_func, text))
                              EXCEPT ![g].children = Append(@, Len(heap) + 1)]
           starts == {k \in 1..Len(Groupings(cfg)) :
                        MatchesAt(string, index, Groupings(cfg)[k].start)}
           ends == g # Root /\ MatchesAt(string, index, heap[g].grouping.end)
           ops == {j \in 1..NumOps(cfg) :
                     MatchesAt(string, index, Operators(cfg)[j].representation)}
           first == CHOOSE j \in ops : \A i \in ops : j <= i
           new == Len(flushed) + 1
       IN  IF starts # {}
             THEN \E k \in starts :
                    /\ heap' = [Append(flushed, NewGroup(g, Groupings(cfg)[k]))
                                  EXCEPT ![g].children = Append(@, new)]
                    /\ data' = [data EXCEPT !.current_group = new,
                                            !.current_value = GetNewValue,
                                            !.index = index + Len(Groupings(cfg)[k].start)]
           ELSE IF ends
             THEN /\ heap' = flushed
                  /\ data' = [data EXCEPT !.current_group = heap[g].parent,
                                          !.current_value = GetNewValue,
                                          !.index = index + Len(heap[g].grouping.end)]
           ELSE IF ops # {}
             THEN /\ heap' = [flushed EXCEPT ![g].children = Append(@, first)]
                  /\ data' = [data EXCEPT !.current_value = GetNewValue,
                                          !.index = index + Len(Operators(cfg)[first].representation)]
           ELSE /\ heap' = heap
                /\ data' = [data EXCEPT !.current_value.value = Append(@, string[index + 1]),
                                        !.index = index + 1]]_vars

\* the first-listed operator "&" was recognized where the later-listed "&&"
\* matches as well, right after a value was flushed
C8_Witness ==
  /\ pc = "parsing"
  /\ cfg = 2
  /\ data.index >= 2
  /\ data.index < Len(data.string)
  /\ data.string[data.index] = "&"
  /\ data.string[data.index + 1] = "&"
  /\ data.string[data.index - 1] = "b"
  /\ LET cs == heap[data.current_group].children
     IN  /\ Len(cs) >= 2
         /\ cs[Len(cs)] = 1
         /\ heap[cs[Len(cs) - 1]].kind = "Value"

\* C9: with total evaluation and operator functions, evaluate returns a
\* Result or fails with MissingOperatorError or InvalidOperandError.
C9_OnlyParserErrors ==
  Returned /\ func # None
    => ret.kind \in {"Result", "MissingOperatorError", "InvalidOperandError"}

\* C10: in the copy evaluate reduces, every child and every parent reference
\* of a nested Group is an object of the copy, and each nested Group is
\* among the children of the Group its parent reference names.
C10_CloneIsIndependent ==
  pc = "cloned" =>
    \A n \in copy_self..Len(heap) :
      heap[n].kind = "Group" =>
        /\ \A x \in Range(heap[n].children) : x >= copy_self
        /\ n # copy_self =>
             /\ heap[n].parent >= copy_self
             /\ n \in Range(heap[heap[n].parent].children)
====
